---- MODULE Spec2Model ----
(***************************************************************************)
(* Model of TradesService (src/unnamed/part_000): the live notification    *)
(* handlers, the debounced sweep (ensurePollData), the single-worker queue *)
(* (ensureOfferPublishedQueue), the sweep task (ensureOfferPublished) and  *)
(* the publish-then-mark protocol (publishOffer).                          *)
(*                                                                         *)
(* The trading-session engine (steam-tradeoffer-manager), the outward      *)
(* channel (EventsService.publish) and the queue library (fastq) are       *)
(* collaborators: the engine is modelled as an environment that creates    *)
(* offers, changes their state, records the state it saw in pollData and   *)
(* delivers or drops the live notification; a publish or a fetch is an     *)
(* asynchronous call that completes later, with success or failure.        *)
(***************************************************************************)
EXTENDS Naturals, Sequences, FiniteSets

\* ---------------------------------------------------------------- bounds
MaxSweeps == 2      \* timer expiries explored
MaxEvents == 4      \* steps of the platform and the engine's poll explored
MaxItems == 2       \* items an offer gives, where publishOffer is called on any offer
MaxDirectCalls == 1 \* calls of publishOffer per offer, where it is called on any offer

\* ------------------------------------------------------------- constants
ConcurrencyTwo == 1 + 1  \* a queue with two workers
Concurrency == 1    \* fastq.promise(worker, 1)
QuietInterval == 1  \* setTimeout(..., 1000): one tick of the model is 1000 ms

Null == "null"

\* ETradeOfferState values the code distinguishes (CreatedNeedsConfirmation,
\* Active) and one more, standing for every other state of the enumeration.
\* None of the enumeration's values is 0, so `if (oldState)` is oldState # null.
States == {"CreatedNeedsConfirmation", "Active", "Accepted"}

Offers == {"A", "B"}
OfferOrder == <<"A", "B">>

\* The engine's offers: A is sent to us, B is ours.
IsOurOffer(id) == id = "B"

\* an id the platform has no offer for yet
NoOffer(id) == [state |-> Null, isOurOffer |-> IsOurOffer(id), itemsToGive |-> 0]

VARIABLES
  offer,                      \* the platform's offers: [state, isOurOffer, itemsToGive], state null before creation
  pollData,                   \* manager.pollData: sent, received, offerData[id].published
  ensurePollDataTimeout,      \* the timer handle: "null", "pending" or "fired"
  timers,                     \* the event loop's pending timers, oldest first: ticks left
  ensureOfferPublishedQueue,  \* tasks pushed and not started: [seq, id]
  running,                    \* tasks started and not settled: [seq, id, pc, call]
  lastSettled,                \* the task that settled last: [seq, id, exit, out, caught]
  calls,                      \* per id, the eventsService.publish calls in call order
  okSeq,                      \* per id, the indices of its calls in the order their publish succeeded
  quiet,                      \* per id: the last sweep task published the offer's state, and since
                              \* then the state has not changed and nobody else wrote the marker
  sweeps,                     \* timer expiries so far
  burst,                      \* calls of ensurePollData since the last expiry: 0, 1, or 2 for more
  events                      \* steps of the platform and the engine's poll so far

vars == <<offer, pollData, ensurePollDataTimeout, timers, ensureOfferPublishedQueue,
          running, lastSettled, calls, okSeq, quiet, sweeps, burst, events>>

\* ------------------------------------------------------- pure operators

\* the order of the states in the life of an offer
Rank(s) ==
  CASE s = Null -> 0
    [] s = "CreatedNeedsConfirmation" -> 1
    [] s = "Active" -> 2
    [] s = "Accepted" -> 3

\* Object.keys(map), for the ids that have an entry
Keys(m) == SelectSeq(OfferOrder, LAMBDA id : m[id] # Null)

\* pollData.sent[id] ?? pollData.received[id] ?? null
CurrentState(pd, id) ==
  IF pd.sent[id] # Null THEN pd.sent[id]
  ELSE IF pd.received[id] # Null THEN pd.received[id]
  ELSE Null

\* offerData?.published ?? null, and offer.data('published')
Published(pd, id) == pd.offerData[id]

\* a check before the fetch that also compares a state the engine does not hold
AlreadyPublishedOrUnknown(pd, id) == CurrentState(pd, id) = Published(pd, id)

\* the check that returns before the fetch
AlreadyPublished(pd, id) ==
  /\ CurrentState(pd, id) # Null
  /\ CurrentState(pd, id) = Published(pd, id)

\* a sweep task that skips the check after the fetch
StillPublishedNever(state, publishedState) == FALSE

\* a check after the fetch with the comparison inverted
StillPublishedInverted(state, publishedState) == state # publishedState

\* the check after the fetch: offer.state === publishedState
StillPublished(state, publishedState) == state = publishedState

\* a classifier without the branch of the received offer
ClassifyWithoutReceived(o, oldState) ==
  IF oldState # Null
    THEN [kind |-> "trades.changed", oldState |-> oldState]
  ELSE IF ~o.isOurOffer
    THEN [kind |-> "trades.changed", oldState |-> Null]
  ELSE IF o.state = "CreatedNeedsConfirmation"
    THEN [kind |-> "trades.sent", oldState |-> Null]
  ELSE IF o.state = "Active" /\ o.itemsToGive = 0
    THEN [kind |-> "trades.sent", oldState |-> Null]
  ELSE [kind |-> "trades.changed", oldState |-> Null]

\* a classifier that looks at the old state last
ClassifyOldStateLast(o, oldState) ==
  IF ~o.isOurOffer /\ o.state = "Active"
    THEN [kind |-> "trades.received", oldState |-> Null]
  ELSE IF o.isOurOffer /\ o.state = "CreatedNeedsConfirmation"
    THEN [kind |-> "trades.sent", oldState |-> Null]
  ELSE IF o.isOurOffer /\ o.state = "Active" /\ o.itemsToGive = 0
    THEN [kind |-> "trades.sent", oldState |-> Null]
  ELSE [kind |-> "trades.changed", oldState |-> oldState]

\* a classifier that does not look at the items of an Active offer of ours
ClassifyIgnoresItems(o, oldState) ==
  IF oldState # Null
    THEN [kind |-> "trades.changed", oldState |-> oldState]
  ELSE IF ~o.isOurOffer
    THEN IF o.state = "Active"
           THEN [kind |-> "trades.received", oldState |-> Null]
           ELSE [kind |-> "trades.changed", oldState |-> Null]
  ELSE IF o.state = "CreatedNeedsConfirmation"
    THEN [kind |-> "trades.sent", oldState |-> Null]
  ELSE IF o.state = "Active"
    THEN [kind |-> "trades.sent", oldState |-> Null]
  ELSE [kind |-> "trades.changed", oldState |-> Null]

\* the closure `publish` of publishOffer: the event it hands to eventsService
Classify(o, oldState) ==
  IF oldState # Null
    THEN [kind |-> "trades.changed", oldState |-> oldState]
  ELSE IF ~o.isOurOffer
    THEN IF o.state = "Active"
           THEN [kind |-> "trades.received", oldState |-> Null]
           ELSE [kind |-> "trades.changed", oldState |-> Null]
  ELSE IF o.state = "CreatedNeedsConfirmation"
    THEN [kind |-> "trades.sent", oldState |-> Null]
  ELSE IF o.state = "Active" /\ o.itemsToGive = 0
    THEN [kind |-> "trades.sent", oldState |-> Null]
  ELSE [kind |-> "trades.changed", oldState |-> Null]

\* a publishOffer whose handlers drop the old state
PublishCallWithoutOldState(o, oldState, src) ==
  [state |-> o.state, prior |-> oldState, kind |-> Classify(o, Null).kind,
   oldState |-> Classify(o, Null).oldState, src |-> src,
   res |-> "pending", out |-> "pending"]

\* publishOffer up to the call of eventsService.publish: the call it leaves pending
PublishCall(o, oldState, src) ==
  [state |-> o.state, prior |-> oldState, kind |-> Classify(o, oldState).kind,
   oldState |-> Classify(o, oldState).oldState, src |-> src,
   res |-> "pending", out |-> "pending"]

\* a publish chain that never writes the marker
MarkerNever(pd, id, c, ok) == pd

\* a publish chain that writes the marker whether or not the publish succeeded
MarkerAlways(pd, id, c, ok) == [pd EXCEPT !.offerData[id] = c.state]

\* .then(() => offer.data('published', offer.state)): the marker after the publish settled
MarkerAfter(pd, id, c, ok) ==
  IF ok THEN [pd EXCEPT !.offerData[id] = c.state] ELSE pd

\* a publish chain without its catch
PublishOfferRethrows(ok) == IF ok THEN "resolved" ELSE "rejected"

\* .then(...).catch(...): how the promise of publishOffer settles
PublishOfferOutcome(ok) == "resolved"

\* a push without its catch
PushCatchMissing(out) == FALSE

\* .catch on the promise of push: a rejected task is logged
PushCatch(out) == out = "rejected"

\* a worker that is not released when the task's promise rejects
ReleaseOnSuccess(rs, t, out) ==
  IF out = "rejected" THEN (rs \ {t}) \cup {[t EXCEPT !.pc = "stalled"]} ELSE rs \ {t}

\* fastq: the worker is released when the task's promise settles, either way
Release(rs, t, out) == rs \ {t}

\* a queue that takes the newest task first
NextTaskNewest(q) == q[Len(q)]

\* fastq: the next task is the oldest one
NextTask(q) == Head(q)

\* clearTimeout(this.ensurePollDataTimeout): the handle names the newest timer
ClearTimeout(ts, h) ==
  IF h = "pending" /\ ts # <<>> THEN SubSeq(ts, 1, Len(ts) - 1) ELSE ts

\* an ensurePollData that does not clear the pending timer
TimersNotCleared(ts, h) == ts

\* ensurePollData up to setTimeout: the timers left pending
TimersAfterClear(ts, h) == IF h # "null" THEN ClearTimeout(ts, h) ELSE ts

\* a sweep over the sent offers only
SweepSentOnly(pd) == Keys(pd.sent)

\* the tasks one expiry pushes: sent ids, then received ids
SweepIds(pd) == Keys(pd.sent) \o Keys(pd.received)

\* a task that calls publishOffer without returning its promise
AwaitNothing(rs, t, k) == rs \ {t}

\* return this.publishOffer(...): the task's promise follows the publish chain of its
\* call k, so the task stays with the worker until that chain has settled
AwaitPublish(rs, t, k) == (rs \ {t}) \cup {[t EXCEPT !.pc = "publish", !.call = k]}

\* the promise of a task settles: what the queue and the catch on push see
\* exit: where ensureOfferPublished left ("fast": before the fetch, "NoMatch" / "Error":
\* the fetch failed, "same": after the fetch, "published" / "publishFailed": the publish)
Settle(t, exit, out) ==
  [seq |-> t.seq, id |-> t.id, exit |-> exit, out |-> out, caught |-> PushCatch(out)]

\* a handler that does not publish a state the marker already holds
OnOfferUnlessPublished(cs, id, o, oldState) ==
  IF o.state = Published(pollData, id)
    THEN cs
    ELSE [cs EXCEPT ![id] = Append(@, PublishCall(o, oldState, "live"))]

\* the handlers of newOffer, sentOfferChanged and receivedOfferChanged:
\* this.publishOffer(offer, oldState), up to the call of eventsService.publish
OnOffer(cs, id, o, oldState) ==
  [cs EXCEPT ![id] = Append(@, PublishCall(o, oldState, "live"))]

\* a sweep task that calls publishOffer without the marker it read
SweepPublishWithoutPrior(cs, id, o, publishedState) ==
  [cs EXCEPT ![id] = Append(@, PublishCall(o, Null, "sweep"))]

\* the sweep task's this.publishOffer(offer, publishedState), up to the call of
\* eventsService.publish
SweepPublish(cs, id, o, publishedState) ==
  [cs EXCEPT ![id] = Append(@, PublishCall(o, publishedState, "sweep"))]

\* ------------------------------------------------------------------ Init

Init ==
  /\ offer = [id \in Offers |-> NoOffer(id)]
  /\ pollData = [sent |-> [id \in Offers |-> Null],
                 received |-> [id \in Offers |-> Null],
                 offerData |-> [id \in Offers |-> Null]]
  /\ ensurePollDataTimeout = "null"
  /\ timers = <<>>
  /\ ensureOfferPublishedQueue = <<>>
  /\ running = {}
  /\ lastSettled = [seq |-> 0, id |-> Null, exit |-> "none", out |-> "none", caught |-> FALSE]
  /\ calls = [id \in Offers |-> <<>>]
  /\ okSeq = [id \in Offers |-> <<>>]
  /\ quiet = [id \in Offers |-> FALSE]
  /\ sweeps = 0
  /\ burst = 0
  /\ events = 0

\* ----------------------------------------------------------- environment

\* an offer appears on the platform
Create(id) ==
  /\ offer[id].state = Null
  /\ events < MaxEvents
  /\ events' = events + 1
  /\ \E s \in (IF IsOurOffer(id) THEN {"CreatedNeedsConfirmation", "Active"} ELSE {"Active"}),
        n \in (IF IsOurOffer(id) THEN 0..1 ELSE {1}) :
       offer' = [offer EXCEPT ![id] = [state |-> s, isOurOffer |-> IsOurOffer(id),
                                       itemsToGive |-> n]]
  /\ UNCHANGED <<pollData, ensurePollDataTimeout, timers, ensureOfferPublishedQueue,
                 running, lastSettled, calls, okSeq, quiet, sweeps, burst>>

\* the offer's state advances on the platform
Change(id) ==
  /\ offer[id].state # Null
  /\ offer[id].state # "Accepted"
  /\ events < MaxEvents
  /\ events' = events + 1
  /\ offer' = [offer EXCEPT ![id].state =
                 IF @ = "CreatedNeedsConfirmation" THEN "Active" ELSE "Accepted"]
  /\ quiet' = [quiet EXCEPT ![id] = FALSE]
  /\ UNCHANGED <<pollData, ensurePollDataTimeout, timers, ensureOfferPublishedQueue,
                 running, lastSettled, calls, okSeq, sweeps, burst>>

\* The engine's poll sees the offer in a state it had not recorded. It records the
\* state, and the notification is delivered (newOffer when the offer is new to it,
\* sentOfferChanged / receivedOfferChanged with the recorded state otherwise) or lost.
Observe(id, deliver) ==
  /\ offer[id].state # Null
  /\ CurrentState(pollData, id) # offer[id].state
  /\ events < MaxEvents
  /\ events' = events + 1
  /\ pollData' = IF offer[id].isOurOffer
                   THEN [pollData EXCEPT !.sent[id] = offer[id].state]
                   ELSE [pollData EXCEPT !.received[id] = offer[id].state]
  /\ calls' = IF deliver
                THEN OnOffer(calls, id, offer[id], CurrentState(pollData, id))
                ELSE calls
  /\ UNCHANGED <<offer, ensurePollDataTimeout, timers, ensureOfferPublishedQueue,
                 running, lastSettled, okSeq, quiet, sweeps, burst>>

\* ------------------------------------------------------------ the service

\* manager.on('pollData') -> ensurePollData(). The signal may come at any time and any
\* number of times; it is explored while a sweep is left to explore.
EnsurePollData ==
  /\ sweeps < MaxSweeps
  /\ timers' = Append(TimersAfterClear(timers, ensurePollDataTimeout), QuietInterval)
  /\ ensurePollDataTimeout' = "pending"
  /\ burst' = IF burst = 0 THEN 1 ELSE 2
  /\ UNCHANGED <<offer, pollData, ensureOfferPublishedQueue, running, lastSettled, calls,
                 okSeq, quiet, sweeps, events>>

\* 1000 ms pass
Tick ==
  /\ \E k \in 1..Len(timers) : timers[k] > 0
  /\ timers' = [k \in 1..Len(timers) |-> IF timers[k] > 0 THEN timers[k] - 1 ELSE 0]
  /\ UNCHANGED <<offer, pollData, ensurePollDataTimeout, ensureOfferPublishedQueue,
                 running, lastSettled, calls, okSeq, quiet, sweeps, burst, events>>

\* the timer's callback: one task per id of pollData.sent and pollData.received.
\* The handle keeps naming the timer that fired (it is never reset to null).
Expire ==
  /\ timers # <<>>
  /\ Head(timers) = 0
  /\ sweeps < MaxSweeps
  /\ timers' = Tail(timers)
  /\ ensurePollDataTimeout' = IF Len(timers) = 1 THEN "fired" ELSE ensurePollDataTimeout
  /\ ensureOfferPublishedQueue' = ensureOfferPublishedQueue \o
       [k \in 1..Len(SweepIds(pollData)) |->
          [seq |-> sweeps * Cardinality(Offers) + k, id |-> SweepIds(pollData)[k]]]
  /\ sweeps' = sweeps + 1
  /\ burst' = 0
  /\ UNCHANGED <<offer, pollData, running, lastSettled, calls, okSeq, quiet, events>>

\* the worker takes a task: ensureOfferPublished up to its first await
StartTask ==
  /\ ensureOfferPublishedQueue # <<>>
  /\ Cardinality(running) < Concurrency
  /\ LET t == NextTask(ensureOfferPublishedQueue)
     IN /\ ensureOfferPublishedQueue' = SelectSeq(ensureOfferPublishedQueue, LAMBDA x : x # t)
        /\ IF AlreadyPublished(pollData, t.id)
             THEN /\ lastSettled' = Settle(t, "fast", "resolved")
                  /\ running' = running
             ELSE /\ running' = running \cup {[seq |-> t.seq, id |-> t.id, pc |-> "fetch", call |-> 0]}
                  /\ lastSettled' = lastSettled
  /\ UNCHANGED <<offer, pollData, ensurePollDataTimeout, timers, calls, okSeq, quiet,
                 sweeps, burst, events>>

\* _getTrade answers: the rest of ensureOfferPublished, up to the publish
FetchOk(t) ==
  /\ t \in running /\ t.pc = "fetch"
  /\ IF StillPublished(offer[t.id].state, Published(pollData, t.id))
       THEN /\ lastSettled' = Settle(t, "same", "resolved")
            /\ running' = Release(running, t, "resolved")
            /\ calls' = calls
       ELSE /\ calls' = SweepPublish(calls, t.id, offer[t.id], Published(pollData, t.id))
            /\ running' = AwaitPublish(running, t, Len(calls[t.id]) + 1)
            /\ lastSettled' = lastSettled
  /\ UNCHANGED <<offer, pollData, ensurePollDataTimeout, timers, ensureOfferPublishedQueue,
                 okSeq, quiet, sweeps, burst, events>>

\* _getTrade rejects: BadRequestException for NoMatch, the engine's error otherwise
FetchFail(t, err) ==
  /\ t \in running /\ t.pc = "fetch"
  /\ lastSettled' = Settle(t, err, "rejected")
  /\ running' = Release(running, t, "rejected")
  /\ UNCHANGED <<offer, pollData, ensurePollDataTimeout, timers, ensureOfferPublishedQueue,
                 calls, okSeq, quiet, sweeps, burst, events>>

\* eventsService.publish settles: the .then / .catch of publishOffer, and for a sweep
\* task the end of ensureOfferPublished
PublishDone(id, k, ok) ==
  /\ k \in 1..Len(calls[id])
  /\ calls[id][k].res = "pending"
  /\ calls' = [calls EXCEPT ![id][k].res = IF ok THEN "ok" ELSE "fail",
                            ![id][k].out = PublishOfferOutcome(ok)]
  /\ pollData' = MarkerAfter(pollData, id, calls[id][k], ok)
  /\ okSeq' = IF ok THEN [okSeq EXCEPT ![id] = Append(@, k)] ELSE okSeq
  /\ quiet' = [quiet EXCEPT ![id] =
                 IF ok THEN calls[id][k].src = "sweep" /\ calls[id][k].state = offer[id].state
                       ELSE @]
  /\ IF \E t \in running : t.id = id /\ t.call = k
       THEN LET t == CHOOSE t \in running : t.id = id /\ t.call = k
            IN /\ lastSettled' = Settle(t, IF ok THEN "published" ELSE "publishFailed",
                                       PublishOfferOutcome(ok))
               /\ running' = Release(running, t, PublishOfferOutcome(ok))
       ELSE UNCHANGED <<lastSettled, running>>
  /\ UNCHANGED <<offer, ensurePollDataTimeout, timers, ensureOfferPublishedQueue, sweeps,
                 burst, events>>

\* ------------------------------------------------------------------ Next

Next ==
  \/ \E id \in Offers : Create(id)
  \/ \E id \in Offers : Change(id)
  \/ \E id \in Offers, deliver \in BOOLEAN : Observe(id, deliver)
  \/ EnsurePollData
  \/ Tick
  \/ Expire
  \/ StartTask
  \/ \E t \in running : FetchOk(t)
  \/ \E t \in running, err \in {"NoMatch", "Error"} : FetchFail(t, err)
  \/ \E id \in Offers, k \in 1..(MaxSweeps + MaxEvents), ok \in BOOLEAN : PublishDone(id, k, ok)

Spec == Init /\ [][Next]_vars

\* The event loop runs a due timer and a ready task, and the engine and the outward
\* channel answer every call, with success or failure: time passes, a pending timer
\* that is due fires, a pushed task starts when the worker is free, a fetch and a
\* publish settle.
FetchSettles ==
  \E t \in running : FetchOk(t) \/ \E err \in {"NoMatch", "Error"} : FetchFail(t, err)

PublishSettles ==
  \E id \in Offers, k \in 1..(MaxSweeps + MaxEvents), ok \in BOOLEAN : PublishDone(id, k, ok)

FairSpec ==
  /\ Spec
  /\ WF_vars(Tick)
  /\ WF_vars(Expire)
  /\ WF_vars(StartTask)
  /\ WF_vars(FetchSettles)
  /\ WF_vars(PublishSettles)

\* ------------------------------------------- publishOffer on any offer

\* publishOffer is handed any offer, of either direction, in any state, giving any
\* number of items
AnyOffer ==
  [state : States, isOurOffer : BOOLEAN, itemsToGive : 0..MaxItems]

ClassifyInit ==
  /\ offer \in [Offers -> AnyOffer]
  /\ pollData = [sent |-> [id \in Offers |-> Null],
                 received |-> [id \in Offers |-> Null],
                 offerData |-> [id \in Offers |-> Null]]
  /\ ensurePollDataTimeout = "null"
  /\ timers = <<>>
  /\ ensureOfferPublishedQueue = <<>>
  /\ running = {}
  /\ lastSettled = [seq |-> 0, id |-> Null, exit |-> "none", out |-> "none", caught |-> FALSE]
  /\ calls = [id \in Offers |-> <<>>]
  /\ okSeq = [id \in Offers |-> <<>>]
  /\ quiet = [id \in Offers |-> FALSE]
  /\ sweeps = 0
  /\ burst = 0
  /\ events = 0

\* publishOffer(offer, oldState), up to the call of eventsService.publish
PublishOffer(id, oldState) ==
  /\ Len(calls[id]) < MaxDirectCalls
  /\ calls' = [calls EXCEPT ![id] = Append(@, PublishCall(offer[id], oldState, "direct"))]
  /\ UNCHANGED <<offer, pollData, ensurePollDataTimeout, timers, ensureOfferPublishedQueue,
                 running, lastSettled, okSeq, quiet, sweeps, burst, events>>

ClassifyNext ==
  \E id \in Offers, oldState \in States \cup {Null} : PublishOffer(id, oldState)

ClassifySpec == ClassifyInit /\ [][ClassifyNext]_vars

\* ------------------------------------ ensureOfferPublished on any pollData

\* the states an offer has had when it is in state s; an offer sent to us starts Active
Past(id, s) ==
  {p \in States : Rank(p) <= Rank(s) /\ (IsOurOffer(id) \/ p # "CreatedNeedsConfirmation")}

\* The worker is handed a task for each offer whatever the engine holds for it:
\* pollData is the engine's, restored from its store at start and trimmed by it, so a
\* task finds any state the offer has had, or none, as the recorded state and as the
\* marker.
TaskInit ==
  /\ offer \in [Offers -> AnyOffer]
  /\ \A id \in Offers :
       /\ offer[id].isOurOffer = IsOurOffer(id)
       /\ ~IsOurOffer(id) => (offer[id].state # "CreatedNeedsConfirmation"
                               /\ offer[id].itemsToGive = 1)
       /\ offer[id].itemsToGive <= 1
  /\ pollData \in [sent : [Offers -> States \cup {Null}],
                    received : [Offers -> States \cup {Null}],
                    offerData : [Offers -> States \cup {Null}]]
  /\ \A id \in Offers :
       /\ pollData.sent[id] \in
            (IF IsOurOffer(id) THEN Past(id, offer[id].state) \cup {Null} ELSE {Null})
       /\ pollData.received[id] \in
            (IF IsOurOffer(id) THEN {Null} ELSE Past(id, offer[id].state) \cup {Null})
       /\ pollData.offerData[id] \in Past(id, offer[id].state) \cup {Null}
  /\ ensurePollDataTimeout = "fired"
  /\ timers = <<>>
  /\ ensureOfferPublishedQueue = [k \in 1..Len(OfferOrder) |-> [seq |-> k, id |-> OfferOrder[k]]]
  /\ running = {}
  /\ lastSettled = [seq |-> 0, id |-> Null, exit |-> "none", out |-> "none", caught |-> FALSE]
  /\ calls = [id \in Offers |-> <<>>]
  /\ okSeq = [id \in Offers |-> <<>>]
  /\ quiet = [id \in Offers |-> FALSE]
  /\ sweeps = 1
  /\ burst = 0
  /\ events = 0

TaskNext ==
  \/ StartTask
  \/ \E t \in running : FetchOk(t)
  \/ \E t \in running, err \in {"NoMatch", "Error"} : FetchFail(t, err)
  \/ \E id \in Offers, k \in 1..(MaxSweeps + MaxEvents), ok \in BOOLEAN : PublishDone(id, k, ok)

TaskSpec == TaskInit /\ [][TaskNext]_vars

\* ---------------------------------------------------------------- claims

\* the calls of an id whose publish succeeded, in the order they succeeded
OkCall(id, j) == calls[id][okSeq[id][j]]

\* the state carried by the publish of an id that succeeded last
LastOkState(id) ==
  IF okSeq[id] = <<>> THEN Null ELSE OkCall(id, Len(okSeq[id])).state

\* C1 (as stated): no two successful publishes for the same offer id that follow one
\* another carry the same offer state.
C1_ExactlyOnce ==
  \A id \in Offers : \A j \in 1..Len(okSeq[id]) :
    j < Len(okSeq[id]) => OkCall(id, j).state # OkCall(id, j + 1).state

\* C1 (amended): two successful publishes for the same offer id that follow one
\* another and carry the same state are never both the sweep path's: one of them was
\* issued by a live notification, which publishes without reading the marker.
C1_SweepNeverRepeatsItself ==
  \A id \in Offers : \A j \in 1..Len(okSeq[id]) :
    (j < Len(okSeq[id]) /\ OkCall(id, j).state = OkCall(id, j + 1).state)
      => (OkCall(id, j).src = "live" \/ OkCall(id, j + 1).src = "live")

\* C1 witness: a state was published by a sweep task and by a live notification, and
\* a sweep task has published two different states one after the other.
C1_Witness ==
  /\ \E id \in Offers : \E j \in 1..Len(okSeq[id]) :
       /\ j < Len(okSeq[id])
       /\ OkCall(id, j).state = OkCall(id, j + 1).state
       /\ {OkCall(id, j).src, OkCall(id, j + 1).src} = {"live", "sweep"}

\* C2: once a sweep task has published an offer's state with success, and as long as
\* the state does not change and nobody else writes the marker, no sweep task calls
\* publish for that offer, whatever the cheap state in pollData is.
C2_Idempotent ==
  [][\A id \in Offers :
       quiet[id] => ~(/\ Len(calls'[id]) > Len(calls[id])
                      /\ calls'[id][Len(calls'[id])].src = "sweep")]_vars

\* C2 witness: the second run came to the check after the fetch (the cheap state
\* differs from the marker) and returned there.
C2_Witness ==
  \E id \in Offers :
    /\ quiet[id]
    /\ lastSettled.id = id /\ lastSettled.exit = "same"
    /\ CurrentState(pollData, id) # Published(pollData, id)
    /\ calls[id][Len(calls[id])].src = "sweep"
    /\ calls[id][Len(calls[id])].res = "ok"

\* C3: the marker of an id is absent as long as no publish for it has succeeded, and
\* is otherwise the state carried by the publish for it that succeeded last.
C3_MarkerConvergence ==
  \A id \in Offers : Published(pollData, id) = LastOkState(id)

\* C3 witness: two publishes of different states have succeeded for an id.
C3_Witness ==
  \E id \in Offers :
    /\ Len(okSeq[id]) >= 2
    /\ OkCall(id, 1).state # OkCall(id, 2).state
    /\ Published(pollData, id) = OkCall(id, Len(okSeq[id])).state

\* C4: the step in which a publish fails leaves every marker as it was and resolves
\* the promise of publishOffer.
C4_FailedPublishSwallowed ==
  [][\A id \in Offers : \A k \in 1..Len(calls[id]) :
       (/\ Len(calls'[id]) = Len(calls[id])
        /\ calls[id][k].res = "pending"
        /\ calls'[id][k].res = "fail")
         => /\ pollData'.offerData = pollData.offerData
            /\ calls'[id][k].out = "resolved"]_vars

\* C4 witness: a publish of the live path and a publish of the sweep path have failed,
\* each carrying a state the marker does not hold.
C4_Witness ==
  /\ \E id \in Offers : \E k \in 1..Len(calls[id]) :
       /\ calls[id][k].src = "live" /\ calls[id][k].res = "fail"
       /\ Published(pollData, id) # calls[id][k].state
  /\ \E id \in Offers : \E k \in 1..Len(calls[id]) :
       /\ calls[id][k].src = "sweep" /\ calls[id][k].res = "fail"
       /\ Published(pollData, id) # calls[id][k].state

\* C5 (as stated): the promise of ensureOfferPublished never rejects.
C5_NeverRejects == lastSettled.out # "rejected"

\* C5 (amended): the promise of ensureOfferPublished rejects exactly when the fetch of
\* the offer fails; it resolves in every other case, a failed publish included; and a
\* rejection is handled by the catch on the promise of push.
C5_RejectsOnlyOnFailedFetch ==
  /\ lastSettled.out = "rejected" <=> lastSettled.exit \in {"NoMatch", "Error"}
  /\ lastSettled.out = "rejected" => lastSettled.caught
  /\ lastSettled.exit \in {"fast", "same", "published", "publishFailed"}
       => lastSettled.out = "resolved"

\* C5 witness: a task whose fetch failed has settled: rejected, and caught.
C5_Witness ==
  /\ lastSettled.exit = "NoMatch"
  /\ lastSettled.out = "rejected"
  /\ lastSettled.caught

\* the tasks of the sweeps explored
Seqs == 1..(MaxSweeps * Cardinality(Offers))

\* the sweep a task belongs to
SweepOf(n) == (n - 1) \div Cardinality(Offers)

FailedExits == {"NoMatch", "Error", "publishFailed"}

\* C6: when a task of a sweep has failed, at its fetch or at its publish, every task
\* of the same sweep still in the queue is eventually run to completion.
C6_FailureIsolation ==
  \A n \in Seqs :
    (/\ lastSettled.exit \in FailedExits
     /\ lastSettled.seq < n /\ SweepOf(lastSettled.seq) = SweepOf(n)
     /\ \E k \in 1..Len(ensureOfferPublishedQueue) : ensureOfferPublishedQueue[k].seq = n)
      ~> (lastSettled.seq = n)

\* C6 witness: in the first sweep the publish of the first task failed, and the
\* second task, for the other offer, has run and published.
C6_Witness ==
  /\ sweeps = 1
  /\ lastSettled.seq = 2 /\ lastSettled.exit = "published"
  /\ \E id \in Offers \ {lastSettled.id} : \E k \in 1..Len(calls[id]) :
       calls[id][k].src = "sweep" /\ calls[id][k].res = "fail"

\* C7: at most one timer is pending, and it is pending exactly while calls of
\* ensurePollData have arrived since the last expiry; the expiry that ends such a
\* burst of calls is one sweep, which leaves no timer pending and pushes one task
\* for each id of pollData.sent and pollData.received.
C7_SweepCoalescing ==
  /\ [](Len(timers) <= 1 /\ (Len(timers) = 1 <=> burst > 0))
  /\ [][sweeps' # sweeps =>
          /\ sweeps' = sweeps + 1
          /\ burst > 0 /\ burst' = 0 /\ timers' = <<>>
          /\ Len(ensureOfferPublishedQueue') =
               Len(ensureOfferPublishedQueue)
                 + Cardinality({id \in Offers : CurrentState(pollData, id) # Null})
          /\ \A id \in Offers : CurrentState(pollData, id) # Null =>
               Cardinality({k \in 1..Len(ensureOfferPublishedQueue') :
                              /\ k > Len(ensureOfferPublishedQueue)
                              /\ ensureOfferPublishedQueue'[k].id = id}) = 1]_vars

\* C7 witness: several calls were coalesced into the first sweep, which pushed a task
\* for each of two known offers.
C7_Witness ==
  /\ sweeps = 1 /\ burst = 2 /\ timers = <<0>>
  /\ \A id \in Offers : CurrentState(pollData, id) # Null

\* the engine recorded state s for the offer, the marker is behind it, and a
\* poll-cycle signal has set the timer of sweep n + 1
Missed(id, s, n) ==
  /\ CurrentState(pollData, id) = s
  /\ Rank(Published(pollData, id)) < Rank(s)
  /\ timers # <<>>
  /\ sweeps = n /\ n < MaxSweeps

\* the marker has caught up with s, or the task of a sweep after n for the offer has
\* just failed at its fetch or at its publish
Healed(id, s, n) ==
  \/ Rank(Published(pollData, id)) >= Rank(s)
  \/ /\ lastSettled.id = id
     /\ lastSettled.seq > n * Cardinality(Offers)
     /\ lastSettled.exit \in FailedExits

\* C8 (as stated): whenever the marker of a known offer is behind the state the
\* engine recorded and a poll-cycle signal has occurred, then, the fetch and the
\* publish succeeding, the marker eventually catches up, whatever further signals
\* arrive.
C8_SelfHealing ==
  \A id \in Offers : \A s \in States : \A n \in 0..(MaxSweeps - 1) :
    Missed(id, s, n) ~> Healed(id, s, n)

\* C8 (amended): the same, unless poll-cycle signals keep arriving forever, each one
\* restarting the wait of the quiet interval.
C8_SelfHealingOnceQuiet ==
  \/ []<><<EnsurePollData>>_vars
  \/ \A id \in Offers : \A s \in States : \A n \in 0..(MaxSweeps - 1) :
       Missed(id, s, n) ~> Healed(id, s, n)

\* C8 witness: the notification of an offer was lost, and a sweep task has published
\* the offer and brought the marker to the recorded state.
C8_Witness ==
  \E id \in Offers :
    /\ Len(calls[id]) = 1
    /\ calls[id][1].src = "sweep" /\ calls[id][1].res = "ok"
    /\ lastSettled.id = id /\ lastSettled.exit = "published"
    /\ Published(pollData, id) = CurrentState(pollData, id)

\* C9: while offer A, sent to us, is Active and no live notification was delivered
\* for it, every publish for it is a trades.received of the Active offer, nothing is
\* published for it after the publish that succeeded, and when a sweep task has
\* published it exactly one event has been published.
C9_ScenarioOne ==
  (/\ offer["A"].state = "Active"
   /\ \A k \in 1..Len(calls["A"]) : calls["A"][k].src = "sweep")
    => /\ \A k \in 1..Len(calls["A"]) :
            /\ calls["A"][k].kind = "trades.received"
            /\ calls["A"][k].state = "Active"
            /\ calls["A"][k].res = "ok" => k = Len(calls["A"])
       /\ Len(okSeq["A"]) <= 1
       /\ (lastSettled.id = "A" /\ lastSettled.exit = "published") => Len(okSeq["A"]) = 1

\* C9 witness: the first sweep published trades.received for A, and the task of the
\* second sweep for A returned without publishing.
C9_Witness ==
  /\ offer["A"].state = "Active"
  /\ Len(calls["A"]) = 1
  /\ calls["A"][1].src = "sweep" /\ calls["A"][1].kind = "trades.received"
  /\ okSeq["A"] = <<1>>
  /\ sweeps = 2
  /\ lastSettled.id = "A" /\ lastSettled.seq > Cardinality(Offers)
  /\ lastSettled.exit = "fast"

\* C10: for offer B, ours, the live notification in state CreatedNeedsConfirmation
\* with no prior state is published as trades.sent, the live notification in state
\* Active with prior state CreatedNeedsConfirmation as trades.changed with oldState
\* CreatedNeedsConfirmation, and the first is handed to the channel before the second.
C10_ScenarioTwo ==
  \A j \in 1..Len(calls["B"]) : \A k \in 1..Len(calls["B"]) :
    (/\ calls["B"][j].src = "live"
     /\ calls["B"][j].state = "CreatedNeedsConfirmation" /\ calls["B"][j].prior = Null
     /\ calls["B"][k].src = "live"
     /\ calls["B"][k].state = "Active" /\ calls["B"][k].prior = "CreatedNeedsConfirmation")
      => /\ j < k
         /\ calls["B"][j].kind = "trades.sent"
         /\ calls["B"][k].kind = "trades.changed"
         /\ calls["B"][k].oldState = "CreatedNeedsConfirmation"

\* C10 witness: the two notifications were delivered and both publishes succeeded.
C10_Witness ==
  /\ Len(calls["B"]) = 2
  /\ calls["B"][1].src = "live" /\ calls["B"][1].state = "CreatedNeedsConfirmation"
  /\ calls["B"][1].kind = "trades.sent"
  /\ calls["B"][2].src = "live" /\ calls["B"][2].state = "Active"
  /\ calls["B"][2].kind = "trades.changed"
  /\ okSeq["B"] = <<1, 2>>

\* a call of publishOffer hands exactly one event to the channel
OneEventPerCall ==
  \A id \in Offers :
    calls'[id] # calls[id] =>
      /\ Len(calls'[id]) = Len(calls[id]) + 1
      /\ SubSeq(calls'[id], 1, Len(calls[id])) = calls[id]

\* C11: a call of publishOffer with a prior state that is not null hands exactly one
\* event to the channel, a trades.changed whose oldState is that prior state,
\* whatever the offer's direction, state and items to give.
C11_KnownPriorIsChanged ==
  /\ [](\A id \in Offers : \A k \in 1..Len(calls[id]) :
          calls[id][k].prior # Null =>
            /\ calls[id][k].kind = "trades.changed"
            /\ calls[id][k].oldState = calls[id][k].prior)
  /\ [][OneEventPerCall]_vars

\* C11 witness: publishOffer was called with a prior state on an Active offer sent to
\* us and on an offer of ours that gives nothing, which without the prior state are
\* a received and a sent offer.
C11_Witness ==
  /\ ~offer["A"].isOurOffer /\ offer["A"].state = "Active"
  /\ Len(calls["A"]) = 1 /\ calls["A"][1].prior = "Active"
  /\ offer["B"].isOurOffer /\ offer["B"].state = "Active" /\ offer["B"].itemsToGive = 0
  /\ Len(calls["B"]) = 1 /\ calls["B"][1].prior = "CreatedNeedsConfirmation"

\* the event of an offer published with no prior state, as the table gives it
TableKind(o) ==
  IF ~o.isOurOffer /\ o.state = "Active" THEN "trades.received"
  ELSE IF o.isOurOffer /\ (\/ o.state = "CreatedNeedsConfirmation"
                            \/ (o.state = "Active" /\ o.itemsToGive = 0))
    THEN "trades.sent"
  ELSE "trades.changed"

\* C12: a call of publishOffer with no prior state hands exactly one event to the
\* channel: trades.received iff the offer was sent to us and is Active, trades.sent
\* iff it is ours and is CreatedNeedsConfirmation or Active giving nothing, and
\* trades.changed with oldState null in every other case.
C12_NoPriorTable ==
  /\ [](\A id \in Offers : \A k \in 1..Len(calls[id]) :
          calls[id][k].prior = Null =>
            /\ calls[id][k].kind = TableKind(offer[id])
            /\ calls[id][k].oldState = Null)
  /\ [][OneEventPerCall]_vars

\* C12 witness: with no prior state, an Active offer of ours that gives items was
\* published as changed and an offer sent to us that is not Active as changed.
C12_Witness ==
  /\ offer["A"].isOurOffer /\ offer["A"].state = "Active" /\ offer["A"].itemsToGive = MaxItems
  /\ Len(calls["A"]) = 1 /\ calls["A"][1].prior = Null
  /\ calls["A"][1].kind = "trades.changed"
  /\ ~offer["B"].isOurOffer /\ offer["B"].state = "CreatedNeedsConfirmation"
  /\ Len(calls["B"]) = 1 /\ calls["B"][1].prior = Null
  /\ calls["B"][1].kind = "trades.changed"

\* no live notification was delivered for the offer: every publish for it is a sweep
\* task's
SweepOnly(id) == \A k \in 1..Len(calls[id]) : calls[id][k].src = "sweep"

\* C13: for an offer no live notification was delivered for, whatever the number of
\* sweeps and of tasks pending for it in the queue, two successful publishes that
\* follow one another carry different states.
C13_NoDuplicateWithinSweepPath ==
  \A id \in Offers :
    SweepOnly(id) =>
      \A j \in 1..Len(okSeq[id]) :
        j < Len(okSeq[id]) => OkCall(id, j).state # OkCall(id, j + 1).state

\* C13 witness: the tasks of two sweeps have each published an offer no live
\* notification was delivered for, with success.
C13_Witness ==
  \E id \in Offers :
    /\ SweepOnly(id)
    /\ Len(okSeq[id]) = 2
    /\ OkCall(id, 1).state # OkCall(id, 2).state
    /\ sweeps = MaxSweeps

\* the numbers of the tasks in the queue; a task's number is its place in the order
\* of the pushes
Queued(q) == {q[k].seq : k \in 1..Len(q)}

\* C14: at most one task is between its start and its completion, and a task that
\* is started is the one pushed before every task left in the queue, which holds the
\* tasks of all ids and sweeps in the order of their pushes.
C14_SingleWorkerFifo ==
  /\ [](/\ Cardinality(running) <= 1
        /\ \A j \in 1..Len(ensureOfferPublishedQueue) :
             \A k \in 1..Len(ensureOfferPublishedQueue) :
               j < k => ensureOfferPublishedQueue[j].seq < ensureOfferPublishedQueue[k].seq
        /\ \A t \in running :
             \A n \in Queued(ensureOfferPublishedQueue) : t.seq < n)
  /\ [][Len(ensureOfferPublishedQueue') < Len(ensureOfferPublishedQueue) =>
          /\ running = {}
          /\ Len(ensureOfferPublishedQueue') = Len(ensureOfferPublishedQueue) - 1
          /\ \E n \in Queued(ensureOfferPublishedQueue) :
               /\ Queued(ensureOfferPublishedQueue') = Queued(ensureOfferPublishedQueue) \ {n}
               /\ \A m \in Queued(ensureOfferPublishedQueue') : n < m
               /\ \/ \E t \in running' : t.seq = n
                  \/ lastSettled'.seq = n]_vars

\* C14 witness: two sweeps pushed the tasks of two offers; the first task is
\* done, the second is running and the tasks of the second sweep wait in the queue.
C14_Witness ==
  /\ lastSettled.seq = 1
  /\ \E t \in running : t.seq = 2 /\ t.id # lastSettled.id
  /\ Queued(ensureOfferPublishedQueue) = {3, 4}

\* the publishes of sweep tasks that have not settled
Outstanding ==
  {c \in UNION {{[id |-> id, call |-> k] : k \in 1..Len(calls[id])} : id \in Offers} :
     /\ calls[c.id][c.call].src = "sweep"
     /\ calls[c.id][c.call].res = "pending"}

\* the step that ends a task which published settles its publish and, on success,
\* writes the marker
EndsAfterPublishAndMarker ==
  \A t \in running :
    (t.pc = "publish" /\ t \notin running') =>
      /\ calls'[t.id][t.call].res # "pending"
      /\ (calls'[t.id][t.call].res = "ok" =>
            Published(pollData', t.id) = calls[t.id][t.call].state)
      /\ (calls'[t.id][t.call].res = "fail" =>
            Published(pollData', t.id) = Published(pollData, t.id))

\* when a task starts, no publish of a sweep task is outstanding
StartsWithNothingOutstanding ==
  Len(ensureOfferPublishedQueue') < Len(ensureOfferPublishedQueue) => Outstanding = {}

\* the marker of an offer no live notification was delivered for changes only in the
\* step that ends a task for that offer
MarkerLeftByTasks ==
  \A id \in Offers :
    (SweepOnly(id) /\ Published(pollData', id) # Published(pollData, id)) =>
      \E t \in running : t.id = id /\ t.pc = "publish" /\ t \notin running'

\* C15: a publish of a sweep task that has not settled is the publish of the task
\* the worker holds; the step that ends a task which published settles its publish
\* and, on success, writes the marker; when a task starts, no publish of a sweep task
\* is outstanding; and the marker of an offer no live notification was delivered for
\* changes only in the step that ends a task for that offer, so the next task for it
\* reads the marker as the one before left it.
C15_TaskEndsAfterPublishAndMarker ==
  /\ [](\A c \in Outstanding :
          \E t \in running : t.id = c.id /\ t.pc = "publish" /\ t.call = c.call)
  /\ [][EndsAfterPublishAndMarker /\ StartsWithNothingOutstanding /\ MarkerLeftByTasks]_vars

\* C15 witness: the task of the second sweep for an offer no live notification was
\* delivered for has started and fetched, after the task of the first sweep for it
\* published with success, and found the marker that task wrote.
C15_Witness ==
  \E id \in Offers :
    /\ SweepOnly(id)
    /\ Len(calls[id]) = 2 /\ okSeq[id] = <<1>>
    /\ calls[id][2].res = "pending"
    /\ calls[id][2].prior = calls[id][1].state
    /\ Published(pollData, id) = calls[id][1].state
    /\ \E t \in running : t.id = id /\ t.call = 2 /\ t.seq > Cardinality(Offers)

\* the step starts the task at the head of the queue
Starts(t) ==
  /\ ensureOfferPublishedQueue # <<>>
  /\ t = Head(ensureOfferPublishedQueue)
  /\ Len(ensureOfferPublishedQueue') < Len(ensureOfferPublishedQueue)

\* C16: a task that starts while the engine holds a state for its id equal to the
\* marker ends in that step, resolved, with no fetch and no publish, leaving pollData
\* and the rest of the queue as they were; a task that starts while the engine holds
\* no state for its id goes to the fetch, also when the marker is absent too.
C16_FastPath ==
  [][\A k \in 1..Len(ensureOfferPublishedQueue) :
       LET t == ensureOfferPublishedQueue[k]
       IN  Starts(t) =>
             /\ (/\ CurrentState(pollData, t.id) # Null
                  /\ CurrentState(pollData, t.id) = Published(pollData, t.id))
                  => /\ running' = running
                     /\ calls' = calls
                     /\ pollData' = pollData
                     /\ ensureOfferPublishedQueue' = Tail(ensureOfferPublishedQueue)
                     /\ lastSettled'.seq = t.seq
                     /\ lastSettled'.exit = "fast" /\ lastSettled'.out = "resolved"
             /\ CurrentState(pollData, t.id) = Null
                  => /\ \E r \in running' : r.seq = t.seq /\ r.id = t.id /\ r.pc = "fetch"
                     /\ calls' = calls
                     /\ pollData' = pollData]_vars

\* C16 witness: the first task found the recorded state equal to the marker and
\* returned; the second found no recorded state and no marker, and is at the fetch.
C16_Witness ==
  /\ lastSettled.seq = 1 /\ lastSettled.exit = "fast"
  /\ CurrentState(pollData, lastSettled.id) # Null
  /\ CurrentState(pollData, lastSettled.id) = Published(pollData, lastSettled.id)
  /\ \E r \in running :
       /\ r.seq = 2 /\ r.pc = "fetch"
       /\ CurrentState(pollData, r.id) = Null
       /\ Published(pollData, r.id) = Null
  /\ \A id \in Offers : calls[id] = <<>>

\* the step in which a sweep task calls publish for id: the call it adds
SweepCalls(id) ==
  /\ Len(calls'[id]) = Len(calls[id]) + 1
  /\ calls'[id][Len(calls'[id])].src = "sweep"

\* the step in which the fetch of task t succeeded and the task returned at the check
\* after it
ReturnsAfterFetch(t) ==
  /\ t.pc = "fetch" /\ t \notin running'
  /\ lastSettled'.seq = t.seq /\ lastSettled'.exit = "same"

\* C17: a sweep task calls publish only in the step after its fetch, only when the
\* state of the fetched offer differs from the marker as it is at that step, and with
\* that marker as the prior state; it returns without publishing when they are equal;
\* hence a trades.changed of the sweep path with an oldState carries an offer whose
\* state differs from it.
C17_ReverifiedAfterFetch ==
  /\ [][/\ \A id \in Offers :
             SweepCalls(id) =>
               /\ \E t \in running : t.id = id /\ t.pc = "fetch"
               /\ offer[id].state # Published(pollData, id)
               /\ calls'[id][Len(calls'[id])].state = offer[id].state
               /\ calls'[id][Len(calls'[id])].prior = Published(pollData, id)
         /\ \A t \in running :
             ReturnsAfterFetch(t) =>
               /\ offer[t.id].state = Published(pollData, t.id)
               /\ calls' = calls]_vars
  /\ [](\A id \in Offers : \A k \in 1..Len(calls[id]) :
          (calls[id][k].src = "sweep" /\ calls[id][k].oldState # Null) =>
            /\ calls[id][k].kind = "trades.changed"
            /\ calls[id][k].oldState # calls[id][k].state)

\* C17 witness: a sweep task has published a trades.changed whose oldState is the
\* marker a live publish had written, and the task that settled last returned at the
\* check after the fetch.
C17_Witness ==
  /\ \E id \in Offers : \E k \in 1..Len(calls[id]) :
       /\ calls[id][k].src = "sweep" /\ calls[id][k].res = "ok"
       /\ calls[id][k].kind = "trades.changed"
       /\ calls[id][k].oldState # Null
       /\ \E j \in 1..Len(calls[id]) :
            /\ j < k /\ calls[id][j].src = "live"
            /\ calls[id][j].state = calls[id][k].oldState
  /\ lastSettled.exit = "same"

\* C18: the step that delivers a live notification hands exactly one event for the
\* notified offer to the channel, carrying the offer's state and the old state of the
\* notification, whatever the marker is, and leaves the marker alone; the step in
\* which the publish of a live notification succeeds sets the marker to the state
\* that publish carried.
C18_LivePublishesUnconditionally ==
  [][\A id \in Offers :
       /\ Observe(id, TRUE) =>
            /\ Len(calls'[id]) = Len(calls[id]) + 1
            /\ SubSeq(calls'[id], 1, Len(calls[id])) = calls[id]
            /\ calls'[id][Len(calls'[id])].src = "live"
            /\ calls'[id][Len(calls'[id])].state = offer[id].state
            /\ calls'[id][Len(calls'[id])].prior = CurrentState(pollData, id)
            /\ calls'[id][Len(calls'[id])].res = "pending"
            /\ pollData'.offerData = pollData.offerData
       /\ \A k \in 1..Len(calls[id]) :
            (/\ calls[id][k].src = "live" /\ calls[id][k].res = "pending"
             /\ Len(calls'[id]) = Len(calls[id]) /\ calls'[id][k].res = "ok")
              => Published(pollData', id) = calls[id][k].state]_vars

\* C18 witness: a sweep task published a state with success before the notification
\* of that state was delivered; the notification was published again, and its
\* success has written the marker.
C18_Witness ==
  \E id \in Offers :
    /\ Len(calls[id]) = 2
    /\ calls[id][1].src = "sweep" /\ calls[id][2].src = "live"
    /\ calls[id][1].state = calls[id][2].state
    /\ okSeq[id] = <<1, 2>>
    /\ Published(pollData, id) = calls[id][2].state

\* the publishes of calls j and k of id are the two that succeeded last for it
LastTwoOk(id, j, k) ==
  /\ Len(okSeq[id]) >= 2
  /\ {okSeq[id][Len(okSeq[id]) - 1], okSeq[id][Len(okSeq[id])]} = {j, k}

\* C19 (as stated): when two live notifications for an offer were delivered one
\* after the other, the first in state S1 and the second in state S2, and both
\* publishes have succeeded, nothing else being published for it since, the marker
\* is S2, whichever publish completed first.
C19_MarkerNeverRegresses ==
  \A id \in Offers : \A k \in 1..Len(calls[id]) :
    (/\ k > 1 /\ k = Len(calls[id])
     /\ calls[id][k - 1].src = "live" /\ calls[id][k].src = "live"
     /\ LastTwoOk(id, k - 1, k))
      => Published(pollData, id) = calls[id][k].state

\* C19, the state that refutes it: the publish of the second notification completed
\* before the publish of the first, whose success then wrote the older state over
\* the newer one.
C19_Regressed ==
  \E id \in Offers :
    /\ Len(calls[id]) = 2
    /\ calls[id][1].src = "live" /\ calls[id][2].src = "live"
    /\ okSeq[id] = <<2, 1>>
    /\ Published(pollData, id) = calls[id][1].state
    /\ Published(pollData, id) # offer[id].state
    /\ CurrentState(pollData, id) = offer[id].state

\* C20: a marker that exists is never removed, and a sweep task that calls publish
\* for an offer whose marker exists publishes a trades.changed whose oldState is the
\* marker as it is at that step, after the fetch; never a trades.sent or a
\* trades.received.
C20_SweepPublishesChangedOnceMarked ==
  [][\A id \in Offers :
       Published(pollData, id) # Null =>
         /\ Published(pollData', id) # Null
         /\ SweepCalls(id) =>
              /\ calls'[id][Len(calls'[id])].kind = "trades.changed"
              /\ calls'[id][Len(calls'[id])].oldState = Published(pollData, id)]_vars

\* C20 witness: an offer of ours that gives nothing was published as sent by its
\* live notification; it became Active, and a sweep task published it as changed
\* from the marker, where without a marker it would be a sent offer.
C20_Witness ==
  /\ offer["B"].state = "Active" /\ offer["B"].itemsToGive = 0
  /\ Len(calls["B"]) = 2
  /\ calls["B"][1].src = "live" /\ calls["B"][1].kind = "trades.sent"
  /\ calls["B"][2].src = "sweep" /\ calls["B"][2].kind = "trades.changed"
  /\ calls["B"][2].oldState = "CreatedNeedsConfirmation"
  /\ Classify(offer["B"], Null).kind = "trades.sent"
  /\ okSeq["B"] = <<1, 2>>

====
